---------------------------- MODULE Spec2Model ----------------------------
(***************************************************************************)
(* Notes API server: the authentication middleware (middleware/auth.js,    *)
(* lib/jwt.js) and the note handlers of the Express application.           *)
(*                                                                         *)
(* Every request is a slot that moves from one await point of its handler  *)
(* to the next; the store (users, posts, post_labels) is shared by all     *)
(* slots, so any two requests interleave at every await.                   *)
(***************************************************************************)
EXTENDS Integers, Sequences, FiniteSets, TLC

\* ------------------------------------------------------------------ bounds
NReq == 2            \* requests in flight through the middleware
MaxNotes == 1        \* notes ever created (ids are serial and never reused)
MaxDraws == 2        \* share tokens ever drawn
NFlight == 1         \* PUT / POST requests suspended between their store calls

\* ---------------------------------------------------------------- values
Users == {"A", "B"}

Undefined == <<>>            \* JS undefined: absent cookie, header or field
EmptyStr == <<"">>           \* JS ''
Malformed == <<"garbage">>   \* a string that is not a JWT

\* A JWT is <<sub, signature, iss, validity>>.
JwtTokens ==
  {<<u, "hs256-ok", "supabase", "live">> : u \in Users}
    \cup {<<"A", "hs256-bad", "supabase", "live">>,
          <<"A", "hs256-ok", "other", "live">>,
          <<"B", "hs256-ok", "supabase", "expired">>}

Tokens == JwtTokens \cup {Malformed}

Cookies == {Undefined, EmptyStr} \cup Tokens

\* Authorization header: absent, or the text "Bearer " followed by a string.
Headers == {Undefined} \cup {<<"Bearer ", t>> : t \in Tokens \cup {EmptyStr}}

Falsy(x) == x \in {Undefined, EmptyStr}

\* req.cookies['sb-access-token'] || req.headers.authorization?.replace('Bearer ', '')
ExtractToken(cookie, header) ==
  IF ~Falsy(cookie) THEN cookie
  ELSE IF header = Undefined THEN Undefined
  ELSE header[2]

\* jwt.verify(token, JWT_SECRET, {algorithms: ['HS256'], issuer: 'supabase'})
\* wrapped in try/catch: {user: decoded, error: null} or {user: null, error: message}
verifySupabaseToken(token) ==
  IF Len(token) # 4 THEN [user |-> "null", error |-> "jwt malformed"]
  ELSE IF token[2] # "hs256-ok" THEN [user |-> "null", error |-> "invalid signature"]
  ELSE IF token[4] # "live" THEN [user |-> "null", error |-> "jwt expired"]
  ELSE IF token[3] # "supabase" THEN [user |-> "null", error |-> "jwt issuer invalid"]
  ELSE [user |-> token[1], error |-> "null"]

\* if (!accessToken) / if (accessToken)
TokenMissing_OnlyUndefined(accessToken) == accessToken = Undefined
TokenMissing(accessToken) == Falsy(accessToken)

\* if (jwtUser && !jwtError)
LocalAccepted_AlwaysFallback(v) == FALSE
LocalAccepted(v) == v.user # "null" /\ v.error = "null"

\* if (error || !user)
AuthorityFailed_ErrorOnly(outcome) == outcome = "error"
AuthorityFailed(outcome) == outcome \in {"error", "nouser"}

\* The identities the authority may name for a token: the subject of a JWT,
\* anyone for a credential this server cannot read.
AuthoritySubjects(token) == IF Len(token) = 4 THEN {token[1]} ELSE Users

\* ---------------------------------------------------------------- state
VARIABLES
  users,      \* the users table: a set of rows
  req,        \* the requests passing through the authentication middleware
  posts,      \* the posts table: note id -> row
  postLabels, \* the post_labels table: note id -> label ids joined to it
  nextId,     \* the next serial id of the posts table
  draws,      \* share tokens drawn so far from crypto.randomBytes
  flight,     \* PUT and POST requests between two of their store calls
  resp,       \* the request served by the last step and what it was answered
  crossWrite, \* the last step wrote a row or a label of a note its caller does not own
  held,       \* note id -> the share tokens the note held and has since lost
  list        \* the GET /api/notes request between two of its store calls

authVars == <<users, req>>
noteVars == <<posts, postLabels, nextId, draws, flight, resp, crossWrite, held, list>>
vars == <<users, req, posts, postLabels, nextId, draws, flight, resp, crossWrite, held, list>>

Reqs == 1..NReq

\* user.email of the identity request r resolved: the email claim of the token
\* on the fast path, the email the authority has on record on the fallback.
\* The two differ once the user changed email after the token was issued.
Email(r) ==
  <<req[r].ident, "@", IF req[r].local = "ok" THEN "example.com" ELSE "example.org">>

\* A row of the users table, as ensureUserExists derives it from the identity:
\* id, email, and the name email.split('@')[0] of an identity without metadata.
UserRow(u, email) == [id |-> u, email |-> email, name |-> email[1]]

\* select id from users where id = user.id: a row was found.
RowExists_Never(u) == FALSE
RowExists(u) == \E row \in users : row.id = u

\* mw         the middleware variant the request runs
\* pc         idle, getUser, lookup, insert, ensured (awaits), then
\*            handler (next() was called) or responded (the middleware answered)
\* token      the argument of the authority call in flight
\* carried    the request carried a credential
\* local      outcome of verifySupabaseToken: notrun, ok, failed
\* authCalls  authority calls issued
\* authResult outcome of the authority call
\* ident      the local `user`: the identity resolved
\* user       req.user
\* status     status of the response the middleware sent, 0 if none
\* nextCalls  times next() was called
\* provErr    outcome of ensureUserExists: notrun until it has returned
IdleReq ==
  [mw |-> "none", pc |-> "idle", token |-> Undefined, carried |-> FALSE,
   local |-> "notrun", authCalls |-> 0, authResult |-> "none", ident |-> "null",
   user |-> "undefined", status |-> 0, nextCalls |-> 0, provErr |-> "notrun"]

AuthInit ==
  /\ users = {}
  /\ req = [r \in Reqs |-> IdleReq]

\* Whether the cookie or the Authorization header holds a non-empty credential.
Carries(cookie, header) ==
  \/ cookie \notin {Undefined, EmptyStr}
  \/ header # Undefined /\ header[2] \notin {Undefined, EmptyStr}

\* res.status(code).json(...): the middleware answers; next() is not called.
Respond_AndNext(r, code, more) ==
  req' = [req EXCEPT ![r] = [more EXCEPT !.pc = "responded", !.status = code,
                                         !.nextCalls = @ + 1]]
Respond(r, code, more) ==
  req' = [req EXCEPT ![r] = [more EXCEPT !.pc = "responded", !.status = code]]

\* next(): control passes to the route handler.
CallNext_Twice(r, more) ==
  req' = [req EXCEPT ![r] = [more EXCEPT !.pc = "handler", !.nextCalls = @ + 2]]
CallNext(r, more) ==
  req' = [req EXCEPT ![r] = [more EXCEPT !.pc = "handler", !.nextCalls = @ + 1]]

\* await ensureUserExists(user): the provisioner is entered with the identity.
EnterAuthenticated_SkipProvision(r, more, u) ==
  CallNext(r, [more EXCEPT !.ident = u, !.user = u])
EnterAuthenticated(r, more, u) ==
  req' = [req EXCEPT ![r] = [more EXCEPT !.pc = "lookup", !.ident = u]]

\* authenticateUser / optionalAuth up to the first await: token extraction,
\* local verification, and the choice of fast path or fallback.
MwStart(r) ==
  /\ req[r].pc = "idle"
  /\ \E mw \in {"authenticateUser", "optionalAuth"}, cookie \in Cookies, header \in Headers :
       LET accessToken == ExtractToken(cookie, header)
           v == verifySupabaseToken(accessToken)
           base == [req[r] EXCEPT !.mw = mw, !.carried = Carries(cookie, header)]
           tried == [base EXCEPT !.local = IF v.error = "null" THEN "ok" ELSE "failed"]
       IN
         IF TokenMissing(accessToken)
         THEN IF mw = "authenticateUser"
              THEN Respond(r, 401, base)
              ELSE CallNext(r, base)
         ELSE IF LocalAccepted(v)
         THEN EnterAuthenticated(r, tried, v.user)
         ELSE req' = [req EXCEPT ![r] =
                        [tried EXCEPT !.pc = "getUser", !.token = accessToken,
                                      !.authCalls = @ + 1]]
  /\ UNCHANGED users

\* await supabase.auth.getUser(accessToken) returns: a user, an error, neither,
\* or the client raises (network failure).
AuthGetUser(r) ==
  /\ req[r].pc = "getUser"
  /\ \E outcome \in {"user", "error", "nouser", "throw"} :
       LET base == [req[r] EXCEPT !.authResult = outcome, !.token = Undefined] IN
         IF outcome = "throw"
         THEN IF req[r].mw = "authenticateUser"
              THEN Respond(r, 500, base)
              ELSE CallNext(r, base)
         ELSE IF AuthorityFailed(outcome)
         THEN IF req[r].mw = "authenticateUser"
              THEN Respond(r, 401, base)
              ELSE CallNext(r, base)
         ELSE \E u \in AuthoritySubjects(req[r].token) : EnterAuthenticated(r, base, u)
  /\ UNCHANGED users

\* ensureUserExists is left: every failure inside it was caught and logged.
ProvReturn_Rethrow(r, err) ==
  IF err = "ok"
  THEN req' = [req EXCEPT ![r].pc = "ensured", ![r].provErr = err]
  ELSE Respond(r, 500, [req[r] EXCEPT !.provErr = err])
ProvReturn(r, err) ==
  req' = [req EXCEPT ![r].pc = "ensured", ![r].provErr = err]

\* ensureUserExists, first await: select id from users where id = user.id, single().
ProvLookup(r) ==
  /\ req[r].pc = "lookup"
  /\ \/ /\ RowExists(req[r].ident)                    \* row found: nothing to do
        /\ ProvReturn(r, "ok")
     \/ /\ ~RowExists(req[r].ident)                   \* PGRST116: no row
        /\ req' = [req EXCEPT ![r].pc = "insert"]
     \/ ProvReturn(r, "fetchError")                   \* any other store error
     \/ ProvReturn(r, "exception")                    \* the client raises
  /\ UNCHANGED users

\* ensureUserExists, second await: insert the row; users.id is unique, so the
\* store refuses a second row for the id.
ProvInsert_SurfaceConflict(r) ==
  /\ req[r].pc = "insert"
  /\ \/ /\ ~RowExists(req[r].ident)
        /\ users' = users \cup {UserRow(req[r].ident, Email(r))}
        /\ ProvReturn(r, "ok")
     \/ /\ RowExists(req[r].ident)
        /\ Respond(r, 500, [req[r] EXCEPT !.provErr = "conflict"])
        /\ UNCHANGED users
     \/ /\ ProvReturn(r, "insertError")
        /\ UNCHANGED users
     \/ /\ ProvReturn(r, "exception")
        /\ UNCHANGED users
ProvInsert(r) ==
  /\ req[r].pc = "insert"
  /\ \/ /\ ~RowExists(req[r].ident)
        /\ users' = users \cup {UserRow(req[r].ident, Email(r))}
        /\ ProvReturn(r, "ok")
     \/ /\ RowExists(req[r].ident)                    \* unique violation
        /\ ProvReturn(r, "conflict")
        /\ UNCHANGED users
     \/ /\ ProvReturn(r, "insertError")               \* any other store error
        /\ UNCHANGED users
     \/ /\ ProvReturn(r, "exception")                 \* the client raises
        /\ UNCHANGED users

\* After await ensureUserExists(user): req.user = user; next().
MwContinue(r) ==
  /\ req[r].pc = "ensured"
  /\ CallNext(r, [req[r] EXCEPT !.user = req[r].ident])
  /\ UNCHANGED users

AuthNext ==
  \E r \in Reqs :
    \/ MwStart(r)
    \/ AuthGetUser(r)
    \/ ProvLookup(r)
    \/ ProvInsert(r)
    \/ MwContinue(r)


\* ------------------------------------------------------------ note store
\* Columns of posts kept: user_id, content (standing for the payload columns
\* title, content, category_id), encrypted_content, is_encrypted, is_draft,
\* is_public, public_share_token, is_updated, created_at, updated_at.
NoteIds == 1..MaxNotes
LabelIds == {1, 2}
Contents == {"c1"}
Ciphertexts == {"e1"}
Flights == 1..NFlight

NoToken == 0     \* public_share_token null
Null == "null"   \* SQL null in a text column

\* Instants. <<n, 0>> is the instant row n was inserted, <<n, 1>> a later one;
\* rows are inserted in the order of their serial ids.
NoTime == <<0, 0>>
InsertedAt(n) == <<n, 0>>
LaterThan(n) == <<n, 1>>

NoRow ==
  [user_id |-> "none", content |-> "none", encrypted_content |-> "none",
   is_encrypted |-> FALSE, is_draft |-> FALSE, is_public |-> FALSE,
   public_share_token |-> NoToken, is_updated |-> FALSE,
   created_at |-> NoTime, updated_at |-> NoTime]

Live(n) == n \in DOMAIN posts /\ posts[n].user_id # "none"

\* A field of a request body or a value of an update: a key that is undefined
\* is not sent, so the column keeps its value (update) or takes its default.
Sent(v, kept) == IF v = "undefined" THEN kept ELSE v

\* Bodies of POST /api/notes and of autosave as a client sends them: content
\* for a plain note, encrypted_content for an encrypted one; autosave may
\* leave is_encrypted out.
PlainBodies ==
  {[is_encrypted |-> "false", content |-> c, encrypted_content |-> "undefined"] :
     c \in Contents}
CipherBodies ==
  {[is_encrypted |-> "true", content |-> "undefined", encrypted_content |-> e] :
     e \in Ciphertexts}
CreateBodies == PlainBodies \cup CipherBodies
AutosaveBodies ==
  CreateBodies
    \cup {[is_encrypted |-> "undefined", content |-> c, encrypted_content |-> "undefined"] :
             c \in Contents}

\* is_encrypted ? null : content  and  is_encrypted ? encrypted_content : null
ContentColumn(body) == IF body.is_encrypted = "true" THEN Null ELSE body.content
CipherColumn(body) == IF body.is_encrypted = "true" THEN body.encrypted_content ELSE Null

\* Rows matched by .eq('id', id).eq('user_id', userId)
OwnedBy_AnyOwner(n, u) == Live(n)
OwnedBy(n, u) == Live(n) /\ posts[n].user_id = u

\* The note exists and belongs to another user than u.
OwnedByOther(n, u) == Live(n) /\ posts[n].user_id # u

\* The :id path parameter is a string: digits, possibly followed by other
\* characters. <<n, tail>> stands for the digits of n followed by tail.
IdParams == {<<n, "">> : n \in NoteIds} \cup {<<1, "abc">>}

\* The store compares :id with the integer column id: a string that is not a
\* decimal integer is refused (invalid input syntax) and the handler throws.
NoId == 0
StoreReads(id) == IF id[2] = "" THEN id[1] ELSE NoId

\* parseInt(id): the leading digits; what follows them is ignored.
parseInt(id) == id[1]

\* labelled: the body has a label_ids property (label_ids !== undefined).
IdleFlight ==
  [pc |-> "idle", user |-> "none", id |-> <<0, "">>, labelled |-> FALSE, label_ids |-> {}]

\* op      the handler that served the request
\* id      the note its :id parameter names, NoId if the store refused it
\* status  the status answered, 0 while the handler is suspended
\* foreign the note existed and belonged to another user than the caller
\* arg     the is_public of the body (visibility only)
\* token   the public_share_token answered (visibility), the :token asked (public)
\* body    the JSON answered by a read handler
\* again   (publish only) the request answered just before was a publish of
\*         the same note and was answered 200
NoBody == [kind |-> "none"]
NoResp ==
  [op |-> "none", id |-> NoId, status |-> 0, foreign |-> FALSE, arg |-> "none",
   token |-> NoToken, body |-> NoBody, again |-> FALSE]

\* The GET /api/notes request: idle until one is received.
IdleList == [pc |-> "idle"]

NotesInit ==
  /\ list = IdleList
  /\ posts = [n \in NoteIds |-> NoRow]
  /\ postLabels = [n \in NoteIds |-> {}]
  /\ held = [n \in NoteIds |-> {}]
  /\ nextId = 1
  /\ draws = 0
  /\ flight = [f \in Flights |-> IdleFlight]
  /\ resp = NoResp
  /\ crossWrite = FALSE

Serving(op, u, n) ==
  [NoResp EXCEPT !.op = op, !.id = n, !.foreign = OwnedByOther(n, u)]

\* Notes whose row or label rows the step changes.
Written == {n \in DOMAIN posts : posts'[n] # posts[n] \/ postLabels'[n] # postLabels[n]}

\* Bookkeeping of a step taken for caller u that assigns the token column of
\* the notes in `assigned`: whether the step wrote a note of another user, and
\* the tokens each note held before the column was last assigned.
Audit(u, assigned) ==
  /\ crossWrite' = \E n \in Written : OwnedByOther(n, u)
  /\ held' = [n \in NoteIds |->
                IF n \in assigned /\ posts[n].public_share_token # NoToken
                THEN held[n] \cup {posts[n].public_share_token}
                ELSE held[n]]
  /\ UNCHANGED <<authVars, list>>

\* catch (error) { res.status(500) }: the store call failed, nothing was written.
Fail500(op, u) ==
  /\ resp' = [Serving(op, u, NoId) EXCEPT !.status = 500]
  /\ UNCHANGED <<posts, postLabels, flight>>

\* crypto.randomBytes(32).toString('hex'): a 256-bit draw, taken not to repeat
\* an earlier draw.
RandomToken == draws + 1

\* is_public ? randomBytes(32).toString('hex') : null
ShareToken_KeepWhenPublic(n, is_public) ==
  IF is_public # "true" THEN NoToken
  ELSE IF n # NoId /\ posts[n].public_share_token # NoToken
  THEN posts[n].public_share_token
  ELSE RandomToken
ShareToken(n, is_public) == IF is_public = "true" THEN RandomToken ELSE NoToken

\* POST /api/notes: insert the post row, then its label rows, then answer 201.
CreateNote(u) ==
  /\ nextId <= MaxNotes
  /\ \E body \in CreateBodies, is_draft \in BOOLEAN, is_public \in {"true", "false"},
        label_ids \in SUBSET LabelIds :
       /\ is_public = "true" => draws < MaxDraws
       /\ draws' = IF is_public = "true" THEN draws + 1 ELSE draws
       /\ posts' = [posts EXCEPT ![nextId] =
                      [user_id |-> u,
                       content |-> Sent(ContentColumn(body), Null),
                       encrypted_content |-> Sent(CipherColumn(body), Null),
                       is_encrypted |-> (body.is_encrypted = "true"),
                       is_draft |-> is_draft,
                       is_public |-> (is_public = "true"),
                       public_share_token |-> ShareToken(NoId, is_public),
                       is_updated |-> FALSE,
                       created_at |-> InsertedAt(nextId),
                       updated_at |-> InsertedAt(nextId)]]
       /\ postLabels' = [postLabels EXCEPT ![nextId] = label_ids]
  /\ resp' = [Serving("create", u, nextId) EXCEPT !.status = 201]
  /\ nextId' = nextId + 1
  /\ UNCHANGED flight
  /\ Audit(u, {})

\* PUT /api/notes/:id, first store call: update ... eq(id).eq(user_id).select();
\* no row matched is answered 404.
PutUpdate(f, u, id) ==
  /\ flight[f].pc = "idle"
  /\ \E content \in Contents, withLabels \in BOOLEAN, label_ids \in SUBSET LabelIds :
       LET n == StoreReads(id) IN
         /\ ~withLabels => label_ids = {}
         /\ IF n = NoId THEN Fail500("put", u)
            ELSE IF OwnedBy(n, u)
            THEN /\ posts' = [posts EXCEPT ![n].content = content,
                                              ![n].updated_at = LaterThan(n),
                                              ![n].is_updated = TRUE]
                 /\ flight' = [flight EXCEPT ![f] =
                                 [user |-> u, id |-> id, labelled |-> withLabels,
                                  label_ids |-> label_ids,
                                  pc |-> IF withLabels THEN "labelsDelete" ELSE "fetch"]]
                 /\ resp' = Serving("put", u, n)
                 /\ UNCHANGED postLabels
            ELSE /\ resp' = [Serving("put", u, n) EXCEPT !.status = 404]
                 /\ UNCHANGED <<posts, postLabels, flight>>
  /\ UNCHANGED <<nextId, draws>>
  /\ Audit(u, {})

\* PUT: delete from post_labels where post_id = id (its error is not read).
PutLabelsDelete(f) ==
  /\ flight[f].pc = "labelsDelete"
  /\ postLabels' = [postLabels EXCEPT ![StoreReads(flight[f].id)] = {}]
  /\ flight' = [flight EXCEPT ![f].pc =
                  IF flight[f].label_ids # {} THEN "labelsInsert" ELSE "fetch"]
  /\ resp' = Serving("put", flight[f].user, StoreReads(flight[f].id))
  /\ UNCHANGED <<posts, nextId, draws>>
  /\ Audit(flight[f].user, {})

\* PUT: insert into post_labels rows with post_id parseInt(id); the rows
\* reference the post, so the insert fails once the post is gone and the
\* handler answers 500.
PutLabelsInsert(f) ==
  /\ flight[f].pc = "labelsInsert"
  /\ LET n == parseInt(flight[f].id) IN
       IF Live(n)
       THEN /\ postLabels' = [postLabels EXCEPT ![n] = @ \cup flight[f].label_ids]
            /\ flight' = [flight EXCEPT ![f].pc = "fetch"]
            /\ resp' = Serving("put", flight[f].user, n)
       ELSE /\ flight' = [flight EXCEPT ![f] = IdleFlight]
            /\ resp' = [Serving("put", flight[f].user, n) EXCEPT !.status = 500]
            /\ UNCHANGED postLabels
  /\ UNCHANGED <<posts, nextId, draws>>
  /\ Audit(flight[f].user, {})

\* PUT: select the complete post by id, single(); then the answer.
PutFetch(f) ==
  /\ flight[f].pc = "fetch"
  /\ flight' = [flight EXCEPT ![f] = IdleFlight]
  /\ LET n == StoreReads(flight[f].id) IN
       resp' = [Serving("put", flight[f].user, n) EXCEPT
                  !.status = IF Live(n) THEN 200 ELSE 500]
  /\ UNCHANGED <<posts, postLabels, nextId, draws>>
  /\ Audit(flight[f].user, {})

\* DELETE /api/notes/:id: delete ... eq(id).eq(user_id); the rows deleted are
\* not counted. The post's label rows go with it.
DeleteNote(u, id) ==
  /\ LET n == StoreReads(id) IN
       IF n = NoId THEN Fail500("delete", u)
       ELSE /\ posts' = IF OwnedBy(n, u) THEN [posts EXCEPT ![n] = NoRow] ELSE posts
            /\ postLabels' = IF OwnedBy(n, u) THEN [postLabels EXCEPT ![n] = {}]
                             ELSE postLabels
            /\ resp' = [Serving("delete", u, n) EXCEPT !.status = 200]
            /\ UNCHANGED flight
  /\ UNCHANGED <<nextId, draws>>
  /\ Audit(u, {})

\* POST /api/notes/:id/autosave
Autosave(u, id) ==
  /\ \E body \in AutosaveBodies :
       LET n == StoreReads(id) IN
         IF n = NoId THEN Fail500("autosave", u)
         ELSE IF OwnedBy(n, u)
         THEN /\ posts' = [posts EXCEPT
                             ![n].content = Sent(ContentColumn(body), @),
                             ![n].encrypted_content = Sent(CipherColumn(body), @),
                             ![n].is_encrypted = IF body.is_encrypted = "undefined" THEN @
                                                 ELSE body.is_encrypted = "true",
                             ![n].updated_at = LaterThan(n),
                             ![n].is_updated = TRUE]
              /\ resp' = [Serving("autosave", u, n) EXCEPT !.status = 200]
              /\ UNCHANGED <<postLabels, flight>>
         ELSE /\ resp' = [Serving("autosave", u, n) EXCEPT !.status = 404]
              /\ UNCHANGED <<posts, postLabels, flight>>
  /\ UNCHANGED <<nextId, draws>>
  /\ Audit(u, {})

\* PATCH /api/notes/:id/visibility. An is_public that is undefined is left out
\* of the update, so the column keeps its value.
SetVisibility(u, id) ==
  /\ \E is_public \in {"true", "false", "undefined"} :
       LET n == StoreReads(id)
           token == ShareToken(n, is_public)
       IN
         /\ is_public = "true" => draws < MaxDraws
         /\ draws' = IF is_public = "true" THEN draws + 1 ELSE draws
         /\ IF n = NoId THEN Fail500("visibility", u)
            ELSE IF OwnedBy(n, u)
            THEN /\ posts' = [posts EXCEPT
                                ![n].is_public =
                                   IF is_public = "undefined" THEN @ ELSE is_public = "true",
                                ![n].public_share_token = token,
                                ![n].updated_at = LaterThan(n)]
                 /\ resp' = [Serving("visibility", u, n) EXCEPT
                               !.status = 200, !.token = token, !.arg = is_public]
                 /\ UNCHANGED <<postLabels, flight>>
            ELSE /\ resp' = [Serving("visibility", u, n) EXCEPT
                               !.status = 404, !.arg = is_public]
                 /\ UNCHANGED <<posts, postLabels, flight>>
  /\ UNCHANGED nextId
  /\ Audit(u, {n \in NoteIds : n = StoreReads(id) /\ OwnedBy(n, u)})

\* Rows matched by .eq('id', id).eq('user_id', userId).eq('is_draft', true)
DraftOwnedBy_AnyNote(n, u) == OwnedBy(n, u)
DraftOwnedBy(n, u) == OwnedBy(n, u) /\ posts[n].is_draft

\* The request answered just before this one was a publish of note n, answered 200.
JustPublished(n) == resp.op = "publish" /\ resp.id = n /\ resp.status = 200

\* PATCH /api/notes/:id/publish: update ... eq(id).eq(user_id).eq(is_draft, true)
Publish(u, id) ==
  /\ LET n == StoreReads(id) IN
       IF n = NoId THEN Fail500("publish", u)
       ELSE IF DraftOwnedBy(n, u)
       THEN /\ posts' = [posts EXCEPT ![n].is_draft = FALSE,
                                        ![n].updated_at = LaterThan(n),
                                        ![n].is_updated = TRUE]
            /\ resp' = [Serving("publish", u, n) EXCEPT !.status = 200,
                                                        !.again = JustPublished(n)]
            /\ UNCHANGED <<postLabels, flight>>
       ELSE /\ resp' = [Serving("publish", u, n) EXCEPT !.status = 404,
                                                        !.again = JustPublished(n)]
            /\ UNCHANGED <<posts, postLabels, flight>>
  /\ UNCHANGED <<nextId, draws>>
  /\ Audit(u, {})

\* ------------------------------------------------------------ read views
\* The columns a select names; `*` is every column.
AllColumns ==
  {"id", "user_id", "content", "encrypted_content", "is_encrypted", "is_draft",
   "is_public", "public_share_token", "is_updated", "created_at", "updated_at"}

\* GET /api/public/:token selects these.
PublicColumns == {"id", "content", "is_encrypted", "created_at", "updated_at"}

\* The object the store returns for row n: the columns selected and, when the
\* select embeds category:categories(...) and post_labels(label:labels(...)),
\* the category of the row (no note of the model is filed under one) and the
\* labels joined to it.
Select(n, columns, embed) ==
  [c \in columns \cup (IF embed THEN {"category", "post_labels"} ELSE {}) |->
     IF c = "id" THEN n
     ELSE IF c = "category" THEN Null
     ELSE IF c = "post_labels" THEN postLabels[n]
     ELSE posts[n][c]]

\* data.is_updated ? ... : ...   (a property the object lacks is undefined)
IsUpdated(data) == "is_updated" \in DOMAIN data /\ data.is_updated

\* { ...data, labels: data.post_labels?.map(pl => pl.label) || [],
\*   display_date: data.is_updated ? data.updated_at : data.created_at,
\*   date_type: data.is_updated ? 'updated' : 'created' }
Transform(data) ==
  [c \in DOMAIN data \cup {"labels", "display_date", "date_type"} |->
     IF c = "labels"
     THEN IF "post_labels" \in DOMAIN data THEN data.post_labels ELSE {}
     ELSE IF c = "display_date"
     THEN IF IsUpdated(data) THEN data.updated_at ELSE data.created_at
     ELSE IF c = "date_type"
     THEN IF IsUpdated(data) THEN "updated" ELSE "created"
     ELSE data[c]]

\* The :token path parameter.
TokenParams == 1..MaxDraws

\* .eq('public_share_token', token).eq('is_public', true)
PublicMatch_AnyToken(n, token) == Live(n) /\ posts[n].is_public
PublicMatch(n, token) ==
  Live(n) /\ posts[n].public_share_token = token /\ posts[n].is_public

\* GET /api/public/:token: single() gives the row when exactly one matches,
\* an error otherwise; error or no data is answered 404.
GetPublic(token) ==
  /\ LET matched == {n \in DOMAIN posts : PublicMatch(n, token)} IN
       IF Cardinality(matched) = 1
       THEN LET n == CHOOSE m \in matched : TRUE IN
              resp' = [NoResp EXCEPT !.op = "public", !.id = n, !.status = 200,
                                     !.token = token,
                                     !.body = Transform(Select(n, PublicColumns, TRUE))]
       ELSE resp' = [NoResp EXCEPT !.op = "public", !.status = 404, !.token = token]
  /\ UNCHANGED <<posts, postLabels, nextId, draws, flight>>
  /\ Audit("anonymous", {})

NotesNext ==
  \/ \E token \in TokenParams : GetPublic(token)
  \/ \E u \in Users : CreateNote(u)
  \/ \E f \in Flights, u \in Users, id \in IdParams : PutUpdate(f, u, id)
  \/ \E f \in Flights : PutLabelsDelete(f)
  \/ \E f \in Flights : PutLabelsInsert(f)
  \/ \E f \in Flights : PutFetch(f)
  \/ \E u \in Users, id \in IdParams : DeleteNote(u, id)
  \/ \E u \in Users, id \in IdParams : Autosave(u, id)
  \/ \E u \in Users, id \in IdParams : SetVisibility(u, id)
  \/ \E u \in Users, id \in IdParams : Publish(u, id)

\* GET /api/notes/:id: select * with category and labels, eq(id).eq(user_id),
\* single(); an error (no row, or an id the store refuses) or no data is 404.
GetOne(u, id) ==
  /\ LET n == StoreReads(id) IN
       IF n # NoId /\ OwnedBy(n, u)
       THEN resp' = [Serving("get", u, n) EXCEPT
                       !.status = 200,
                       !.body = Transform(Select(n, AllColumns, TRUE))]
       ELSE resp' = [Serving("get", u, n) EXCEPT !.status = 404]
  /\ UNCHANGED <<posts, postLabels, nextId, draws, flight>>
  /\ Audit(u, {})

\* ------------------------------------------------------- GET /api/notes
ListNotes == 2       \* rows of the posts table the listing runs against

\* The four store queries of the handler, in the order it issues them.
Queries == {"probe", "count", "joined", "flat"}

\* How a query ends: not issued, data, or an error whose message carries the
\* table-absent signature, the relationship signature, or neither.
Signatures == {"table", "relationship", "other"}

\* checkError.message.includes('Could not find the table')
TableAbsent_AnySignature(outcome) == outcome \in Signatures
TableAbsent(outcome) == outcome = "table"

\* error.message.includes('Could not find a relationship')
RelationshipUnresolved_Never(outcome) == FALSE
RelationshipUnresolved(outcome) == outcome = "relationship"

\* req.query: page and limit are decimal strings, labels a comma-separated
\* list of ids (empty when absent), drafts and visibility a word or absent.
PageParams == {<<1, "">>, <<2, "">>}
LimitParams == {<<1, "">>, <<2, "">>}
LabelParams == {{}, {1}}
FilterParams ==
  {[drafts |-> "undefined", visibility |-> "undefined"],
   [drafts |-> "true", visibility |-> "undefined"],
   [drafts |-> "false", visibility |-> "undefined"],
   [drafts |-> "undefined", visibility |-> "public"],
   [drafts |-> "undefined", visibility |-> "private"]}

NoCount == -1        \* count undefined: the count query failed

\* .eq('user_id', userId)
RowsOfOwner(u) == {n \in DOMAIN posts : OwnedBy(n, u)}

\* The joined query's predicates: owner, drafts, visibility. (category and
\* search compare payload columns that `content` stands for; not kept.)
Filtered(u, drafts, visibility) ==
  {n \in RowsOfOwner(u) :
     /\ drafts = "true" => posts[n].is_draft
     /\ drafts = "false" => ~posts[n].is_draft
     /\ visibility = "public" => posts[n].is_public
     /\ visibility = "private" => ~posts[n].is_public}

\* .order('created_at', {ascending: false})
OrderByCreatedDesc(S) ==
  CHOOSE seq \in [1..Cardinality(S) -> S] :
    \A i, j \in 1..Cardinality(S) :
      i < j => posts[seq[i]].created_at[1] > posts[seq[j]].created_at[1]

\* .range(offset, offset + limitNum - 1)
Range_WholeResult(seq, offset, limitNum) == seq
Range(seq, offset, limitNum) ==
  SubSeq(seq, offset + 1, IF offset + limitNum < Len(seq) THEN offset + limitNum ELSE Len(seq))

\* Math.ceil(a / b)
Ceil(a, b) == (a + b - 1) \div b

\* count || filteredData.length
CountOrLength(count, length) == IF count = NoCount \/ count = 0 THEN length ELSE count

\* { ...post, labels, display_date, date_type, encrypted_content: undefined }
ListItem(data) ==
  LET item == Transform(data) IN
    [c \in DOMAIN item \ {"encrypted_content"} |-> item[c]]

\* { ...post, labels: [], category: null, display_date, date_type,
\*   encrypted_content: undefined }
FlatItem(post) ==
  LET item == Transform(post) IN
    [c \in (DOMAIN item \cup {"category"}) \ {"encrypted_content"} |->
       IF c = "labels" THEN {}
       ELSE IF c = "category" THEN Null
       ELSE item[c]]

\* post.labels.some(label => labelIds.includes(label.id))
LabelFilter(items, labelIds) == SelectSeq(items, LAMBDA item : item.labels \cap labelIds # {})

Pagination(currentPage, totalPages, totalCount, limitNum, hasNextPage, hasPrevPage) ==
  [currentPage |-> currentPage, totalPages |-> totalPages, totalCount |-> totalCount,
   limit |-> limitNum, hasNextPage |-> hasNextPage, hasPrevPage |-> hasPrevPage]

ListBody(strategy, data, pagination) ==
  [kind |-> "list", strategy |-> strategy, data |-> data, pagination |-> pagination]

\* res.json(...) / res.status(500): the listing is answered.
ListRespond(q, outcome, status, body) ==
  /\ list' = [list EXCEPT !.pc = "done", !.outcome[q] = outcome]
  /\ resp' = [NoResp EXCEPT !.op = "list", !.status = status, !.body = body]

storeVars == <<users, req, posts, postLabels, nextId, draws, flight, crossWrite, held>>

\* The request is received: parameters parsed, the existence probe issued.
ListStart(u) ==
  /\ list.pc = "idle"
  /\ \E page \in PageParams, limit \in LimitParams, labels \in LabelParams,
        filter \in FilterParams :
       list' = [pc |-> "probe", user |-> u, page |-> page, limit |-> limit,
                labels |-> labels, drafts |-> filter.drafts,
                visibility |-> filter.visibility, count |-> NoCount,
                outcome |-> [q \in Queries |-> "none"]]
  /\ resp' = [NoResp EXCEPT !.op = "list"]
  /\ UNCHANGED storeVars

\* select('id').limit(1) returns.
ListProbe ==
  /\ list.pc = "probe"
  /\ \E outcome \in {"ok"} \cup Signatures :
       IF outcome = "ok"
       THEN /\ list' = [list EXCEPT !.pc = "count", !.outcome["probe"] = outcome]
            /\ resp' = [NoResp EXCEPT !.op = "list"]
       ELSE IF TableAbsent(outcome)
       THEN ListRespond("probe", outcome, 200,
              ListBody("empty", <<>>,
                Pagination(1, 0, 0, parseInt(list.limit), FALSE, FALSE)))
       ELSE ListRespond("probe", outcome, 500, NoBody)
  /\ UNCHANGED storeVars

\* select('*', {count: 'exact', head: true}).eq('user_id', userId) returns;
\* its error is logged and the handler goes on.
ListCount ==
  /\ list.pc = "count"
  /\ \E outcome \in {"ok", "other"} :
       list' = [list EXCEPT !.pc = "joined", !.outcome["count"] = outcome,
                            !.count = IF outcome = "ok"
                                      THEN Cardinality(RowsOfOwner(list.user))
                                      ELSE NoCount]
  /\ resp' = [NoResp EXCEPT !.op = "list"]
  /\ UNCHANGED storeVars

\* The joined, filtered, ordered and ranged query returns.
ListJoined ==
  /\ list.pc = "joined"
  /\ \E outcome \in {"ok"} \cup Signatures :
       LET pageNum == parseInt(list.page)
           limitNum == parseInt(list.limit)
           offset == (pageNum - 1) * limitNum
           rows == Range(OrderByCreatedDesc(Filtered(list.user, list.drafts, list.visibility)),
                         offset, limitNum)
           transformedData == [i \in 1..Len(rows) |-> ListItem(Select(rows[i], AllColumns, TRUE))]
           filteredData == IF list.labels # {} THEN LabelFilter(transformedData, list.labels)
                           ELSE transformedData
           totalCount == CountOrLength(list.count, Len(filteredData))
           totalPages == Ceil(totalCount, limitNum)
       IN
         IF outcome = "ok"
         THEN ListRespond("joined", outcome, 200,
                ListBody("joined", filteredData,
                  Pagination(pageNum, totalPages, totalCount, limitNum,
                             pageNum < totalPages, pageNum > 1)))
         ELSE IF RelationshipUnresolved(outcome)
         THEN /\ list' = [list EXCEPT !.pc = "flat", !.outcome["joined"] = outcome]
              /\ resp' = [NoResp EXCEPT !.op = "list"]
         ELSE ListRespond("joined", outcome, 500, NoBody)
  /\ UNCHANGED storeVars

\* The flat query select('*').eq('user_id', userId).order(...) returns.
ListFlat ==
  /\ list.pc = "flat"
  /\ \E outcome \in {"ok", "other"} :
       LET pageNum == parseInt(list.page)
           limitNum == parseInt(list.limit)
           simpleData == OrderByCreatedDesc(RowsOfOwner(list.user))
           simpleTransformed ==
             [i \in 1..Len(simpleData) |-> FlatItem(Select(simpleData[i], AllColumns, FALSE))]
           totalPages == Ceil(Len(simpleTransformed), limitNum)
       IN
         IF outcome = "ok"
         THEN ListRespond("flat", outcome, 200,
                ListBody("flat", simpleTransformed,
                  Pagination(pageNum, totalPages, Len(simpleTransformed), limitNum,
                             pageNum < totalPages, pageNum > 1)))
         ELSE ListRespond("flat", outcome, 500, NoBody)
  /\ UNCHANGED storeVars

\* Rows the write handlers leave in slot n, one of each kind the views tell
\* apart: a fresh plain note; a public plain note that was edited; an
\* encrypted draft that was autosaved; a public encrypted note never edited.
StoredRows(n) ==
  {[user_id |-> u, content |-> IF k.is_encrypted THEN Null ELSE "c1",
    encrypted_content |-> IF k.is_encrypted THEN "e1" ELSE Null,
    is_encrypted |-> k.is_encrypted, is_draft |-> k.is_draft, is_public |-> k.is_public,
    public_share_token |-> IF k.is_public THEN n ELSE NoToken,
    is_updated |-> k.is_updated, created_at |-> InsertedAt(n),
    updated_at |-> IF k.is_updated THEN LaterThan(n) ELSE InsertedAt(n)] :
     u \in Users,
     k \in {[is_encrypted |-> FALSE, is_draft |-> FALSE, is_public |-> FALSE, is_updated |-> FALSE],
            [is_encrypted |-> FALSE, is_draft |-> FALSE, is_public |-> TRUE, is_updated |-> TRUE],
            [is_encrypted |-> TRUE, is_draft |-> TRUE, is_public |-> FALSE, is_updated |-> TRUE],
            [is_encrypted |-> TRUE, is_draft |-> FALSE, is_public |-> TRUE, is_updated |-> FALSE]}}

\* The labels joined to a stored row: none for a fresh note, label 1 otherwise.
StoredLabels(row) == IF row.is_updated \/ row.is_public THEN {1} ELSE {}

\* The store the read handlers run against: ListNotes rows already written.
ListInit ==
  /\ AuthInit
  /\ posts \in {t \in [1..ListNotes -> UNION {StoredRows(n) : n \in 1..ListNotes}] :
                  \A n \in 1..ListNotes : t[n] \in StoredRows(n)}
  /\ postLabels = [n \in 1..ListNotes |-> StoredLabels(posts[n])]
  /\ held = [n \in NoteIds |-> {}]
  /\ nextId = ListNotes + 1
  /\ draws = ListNotes
  /\ flight = [f \in Flights |-> IdleFlight]
  /\ resp = NoResp
  /\ crossWrite = FALSE
  /\ list = IdleList

\* The :id parameters asked of the single-note view.
ViewIdParams == {<<n, "">> : n \in 1..ListNotes} \cup {<<1, "abc">>}

\* No read handler writes the store, so the views are run one after the other:
\* single-note and public views first, then one listing.
ListNext ==
  \/ \E u \in Users : ListStart(u)
  \/ ListProbe
  \/ ListCount
  \/ ListJoined
  \/ ListFlat
  \/ list.pc = "idle" /\ \E u \in Users, id \in ViewIdParams : GetOne(u, id)
  \/ list.pc = "idle" /\ \E token \in TokenParams : GetPublic(token)

\* ------------------------------------------- PUT requests in parallel
PutFlights == 2      \* PUT /api/notes/:id requests in flight at once

\* The store the PUT requests run against: every slot holds a plain note.
PutInit ==
  /\ AuthInit
  /\ posts \in {t \in [NoteIds -> UNION {StoredRows(n) : n \in NoteIds}] :
                  \A n \in NoteIds : t[n] \in StoredRows(n) /\ ~t[n].is_encrypted}
  /\ postLabels = [n \in NoteIds |-> StoredLabels(posts[n])]
  /\ held = [n \in NoteIds |-> {}]
  /\ nextId = MaxNotes + 1
  /\ draws = MaxNotes
  /\ flight = [f \in 1..PutFlights |-> IdleFlight]
  /\ resp = NoResp
  /\ crossWrite = FALSE
  /\ list = IdleList

\* The handler's awaits are the points where another request's step can run.
PutNext ==
  \/ \E f \in DOMAIN flight, u \in Users, id \in IdParams : PutUpdate(f, u, id)
  \/ \E f \in DOMAIN flight : PutLabelsDelete(f)
  \/ \E f \in DOMAIN flight : PutLabelsInsert(f)
  \/ \E f \in DOMAIN flight : PutFetch(f)

Init == AuthInit /\ NotesInit

SpecAuth == Init /\ [][AuthNext /\ UNCHANGED noteVars]_vars

\* An awaited store or authority call of request r returns and the middleware
\* runs on; the arrival of a request is not forced.
AuthResume(r) ==
  (AuthGetUser(r) \/ ProvLookup(r) \/ ProvInsert(r) \/ MwContinue(r)) /\ UNCHANGED noteVars

SpecAuthLive == SpecAuth /\ \A r \in Reqs : WF_vars(AuthResume(r))

SpecNotes == Init /\ [][NotesNext]_vars

SpecList == ListInit /\ [][ListNext]_vars

SpecPut == PutInit /\ [][PutNext]_vars

\* ------------------------------------------------- claims: authentication

Mandatory(r) == req[r].mw = "authenticateUser"
Optional(r) == req[r].mw = "optionalAuth"
ProvFailures == {"fetchError", "insertError", "conflict", "exception"}
StoreFaults == {"fetchError", "insertError", "exception"}

\* The request passed to the handler exactly once, identity attached, no response sent.
PassedWithIdentity(r) ==
  /\ req[r].pc = "handler"
  /\ req[r].nextCalls = 1
  /\ req[r].status = 0
  /\ req[r].user = req[r].ident
  /\ req[r].user \in Users

\* The request is inside the provisioner or just behind it, and its next step is enabled.
OnTheWay(r) ==
  /\ req[r].pc \in {"lookup", "insert", "ensured"}
  /\ req[r].status = 0
  /\ req[r].nextCalls = 0
  /\ ENABLED (ProvLookup(r) \/ ProvInsert(r) \/ MwContinue(r))

\* C1: in authenticateUser, a request whose token verifies locally never
\* causes an authority call, is never answered by the middleware, and ends at
\* the next handler with the identity of the token attached.
C1_FastPathExclusive ==
  \A r \in Reqs :
    (Mandatory(r) /\ req[r].local = "ok") =>
      /\ req[r].authCalls = 0
      /\ req[r].authResult = "none"
      /\ OnTheWay(r) \/ PassedWithIdentity(r)

C1_Witness ==
  \E r \in Reqs :
    Mandatory(r) /\ req[r].local = "ok" /\ PassedWithIdentity(r) /\ req[r].authCalls = 0

\* C2: in authenticateUser, a request whose token fails local verification
\* makes exactly one authority call; a user returned leads to the handler with
\* that identity attached, an error or no user leads to 401 and the handler is
\* never invoked.
C2_FallbackDecides ==
  \A r \in Reqs :
    (Mandatory(r) /\ req[r].local = "failed") =>
      /\ req[r].authCalls = 1
      /\ req[r].authResult = "none" => req[r].pc = "getUser"
      /\ req[r].authResult = "user" => OnTheWay(r) \/ PassedWithIdentity(r)
      /\ req[r].authResult \in {"error", "nouser"} =>
           /\ req[r].pc = "responded"
           /\ req[r].status = 401
           /\ req[r].nextCalls = 0
           /\ req[r].user = "undefined"

C2_Witness ==
  /\ \E r \in Reqs :
       Mandatory(r) /\ req[r].local = "failed" /\ req[r].authResult = "user"
         /\ PassedWithIdentity(r)
  /\ \E r \in Reqs :
       Mandatory(r) /\ req[r].local = "failed" /\ req[r].authResult = "nouser"
         /\ req[r].status = 401

\* C3: in authenticateUser, a request carrying no token in the cookie or the
\* Authorization header is answered 401 in the step that receives it: no local
\* verification, no authority call, no provisioning, no call of next().
C3_NoTokenRejected ==
  \A r \in Reqs :
    (Mandatory(r) /\ ~req[r].carried) =>
      /\ req[r].pc = "responded"
      /\ req[r].status = 401
      /\ req[r].local = "notrun"
      /\ req[r].authCalls = 0
      /\ req[r].provErr = "notrun"
      /\ req[r].nextCalls = 0

C3_Witness ==
  \E r \in Reqs : Mandatory(r) /\ ~req[r].carried /\ req[r].status = 401

\* C4: in optionalAuth, a request with no token, or whose token failed local
\* verification and the authority call, goes to the next handler with req.user
\* unset, and the provisioner does not run for it.
C4_OptionalAnonymous ==
  \A r \in Reqs :
    (Optional(r) /\ (~req[r].carried
                       \/ (req[r].local = "failed"
                             /\ req[r].authResult \in {"error", "nouser", "throw"}))) =>
      /\ req[r].pc = "handler"
      /\ req[r].nextCalls = 1
      /\ req[r].user = "undefined"
      /\ req[r].status = 0
      /\ req[r].provErr = "notrun"

C4_Witness ==
  /\ \E r \in Reqs : Optional(r) /\ ~req[r].carried /\ req[r].pc = "handler"
  /\ \E r \in Reqs :
       Optional(r) /\ req[r].local = "failed" /\ req[r].authResult = "error"
         /\ req[r].pc = "handler"

\* C5: in both variants and on both paths, when next() has been called with an
\* identity attached, ensureUserExists for that identity has returned in the
\* same request; until then the identity is not attached and next() not called.
C5_ProvisionBeforeHandler ==
  \A r \in Reqs :
    /\ (req[r].nextCalls > 0 /\ req[r].user # "undefined") =>
         req[r].provErr # "notrun" /\ req[r].user = req[r].ident
    /\ req[r].pc \in {"lookup", "insert"} =>
         req[r].nextCalls = 0 /\ req[r].user = "undefined" /\ req[r].provErr = "notrun"

C5_Witness ==
  /\ \E r \in Reqs :
       Optional(r) /\ req[r].local = "failed" /\ req[r].pc = "handler"
         /\ req[r].user \in Users /\ req[r].provErr # "notrun"
  /\ \E r \in Reqs :
       Mandatory(r) /\ req[r].local = "ok" /\ req[r].pc = "handler"
         /\ req[r].user \in Users /\ req[r].provErr # "notrun"

\* C6: a failed lookup, a failed insert or an exception inside ensureUserExists
\* leaves the request authenticated: it goes on to the handler with the
\* identity attached and the middleware sends no 401 or 500.
C6_ProvisionFailureSwallowed ==
  \A r \in Reqs :
    req[r].provErr \in ProvFailures =>
      \/ req[r].pc = "ensured" /\ req[r].status = 0 /\ ENABLED MwContinue(r)
      \/ PassedWithIdentity(r)

C6_Witness ==
  /\ \E r \in Reqs : req[r].provErr = "fetchError" /\ PassedWithIdentity(r)
  /\ \E r \in Reqs : req[r].provErr = "insertError" /\ PassedWithIdentity(r)

\* Rows of the users table that carry the id.
RowsOf(u) == {row \in users : row.id = u}

\* Two different requests whose ensureUserExists has returned for the same identity.
BothProvisioned(r1, r2) ==
  /\ r1 # r2
  /\ req[r1].provErr # "notrun"
  /\ req[r2].provErr # "notrun"
  /\ req[r1].ident = req[r2].ident

OwnerOnlyOps == {"put", "visibility", "publish", "delete"}

\* C8: PUT, PATCH visibility, PATCH publish and DELETE on a note owned by
\* another user are each answered 404 and leave the note's row and its label
\* rows as they were.
C8_ForeignWriteIs404 ==
  (resp.op \in OwnerOnlyOps /\ resp.foreign) =>
    /\ resp.status = 404
    /\ ~crossWrite

\* C8, the part the handlers do meet: PUT, visibility and publish answer 404
\* on another user's note, DELETE answers 200, and none of them writes it.
C8_ForeignWriteRefused ==
  (resp.op \in OwnerOnlyOps /\ resp.foreign) =>
    /\ resp.status = IF resp.op = "delete" THEN 200 ELSE 404
    /\ ~crossWrite

C10_VisibilityToken ==
  (resp.op = "visibility" /\ resp.status = 200) =>
    /\ resp.arg = "true" =>
         /\ posts[resp.id].public_share_token # NoToken
         /\ posts[resp.id].public_share_token = resp.token
         /\ posts[resp.id].public_share_token \notin held[resp.id]
    /\ resp.arg = "false" =>
         /\ posts[resp.id].public_share_token = NoToken
         /\ resp.token = NoToken

C10_Witness ==
  /\ resp.op = "visibility"
  /\ resp.status = 200
  /\ resp.arg = "true"
  /\ held[resp.id] # {}
  /\ posts[resp.id].public_share_token # NoToken


\* C11: every note has a non-null public_share_token exactly when its
\* is_public flag is true.
C11_TokenIffPublic ==
  \A n \in DOMAIN posts :
    Live(n) => (posts[n].public_share_token # NoToken <=> posts[n].is_public)


\* C12: GET /api/public/:token answers 404 for every token a note held and
\* lost, whether the note is private now or public again; it answers 200 only
\* for the token a public note holds now, and never serves a private note.
C12_LostTokenIs404 ==
  resp.op = "public" =>
    /\ \A n \in NoteIds : resp.token \in held[n] => resp.status = 404
    /\ resp.status \in {200, 404}
    /\ resp.status = 200 =>
         /\ Live(resp.id)
         /\ posts[resp.id].is_public
         /\ posts[resp.id].public_share_token = resp.token
         /\ resp.token \notin held[resp.id]

C12_Witness ==
  /\ resp.op = "public"
  /\ resp.status = 404
  /\ \E n \in NoteIds :
       Live(n) /\ ~posts[n].is_public /\ resp.token \in held[n]

\* The public view of a note made public again under a new token.
C12_WitnessRepublished ==
  /\ resp.op = "public"
  /\ resp.status = 200
  /\ held[resp.id] # {}


\* C13: a publish call is answered 200 exactly when the note is a draft of the
\* caller, and it then clears is_draft; otherwise it is answered 404 and
\* changes nothing; no step makes a note a draft again, so every publish after
\* the first successful one is answered 404.
C13_PublishOnce ==
  [][/\ (resp'.op = "publish" /\ resp'.id # NoId) =>
          /\ resp'.status = 200 <=>
               (Live(resp'.id) /\ ~resp'.foreign /\ posts[resp'.id].is_draft)
          /\ resp'.status = 200 =>
               posts'[resp'.id].user_id # "none" /\ ~posts'[resp'.id].is_draft
          /\ resp'.status # 200 => resp'.status = 404 /\ posts' = posts
     /\ \A n \in NoteIds :
          (Live(n) /\ ~posts[n].is_draft) => ~posts'[n].is_draft]_vars

C13_Witness ==
  /\ resp.op = "publish"
  /\ resp.status = 200
  /\ Live(resp.id)
  /\ ~posts[resp.id].is_draft

\* A publish call by the owner on a note that is not a draft.
C13_WitnessSecondCall ==
  /\ resp.op = "publish"
  /\ resp.status = 404
  /\ ~resp.foreign
  /\ Live(resp.id)
  /\ ~posts[resp.id].is_draft


\* --------------------------------------------------------- claims: views

\* The listing was answered 200.
Listed == list.pc = "done" /\ resp.op = "list" /\ resp.status = 200

\* The pagination claim on an answered listing: no more items than limit,
\* hasNextPage and hasPrevPage as the requested page and totalPages give them.
PaginationHolds ==
  /\ Len(resp.body.data) <= parseInt(list.limit)
  /\ resp.body.pagination.hasNextPage
       = (parseInt(list.page) < resp.body.pagination.totalPages)
  /\ resp.body.pagination.hasPrevPage = (parseInt(list.page) > 1)

\* C14: every listing answered 200, by whichever strategy, returns at most
\* limit items, hasNextPage = (page < totalPages) and hasPrevPage = (page > 1).
C14_Pagination == Listed => PaginationHolds

\* C14, the part the handler does meet: the joined strategy.
C14_JoinedPagination ==
  (Listed /\ resp.body.strategy = "joined") => PaginationHolds


\* The existence probe has returned with this outcome.
Probed(outcomes) == list.pc # "idle" /\ list.outcome["probe"] \in outcomes

\* No query after the probe was issued and the listing is answered.
ShortCircuited ==
  /\ list.pc = "done"
  /\ \A q \in Queries \ {"probe"} : list.outcome[q] = "none"
  /\ resp.op = "list"

\* C15: a probe that fails with the table-absent signature ends the listing
\* at once, no further query issued, with 200, an empty data array,
\* totalPages = 0 and totalCount = 0; a probe that fails with any other
\* signature ends it with 500.
C15_TableAbsentIsEmpty ==
  /\ Probed({"table"}) =>
       /\ ShortCircuited
       /\ resp.status = 200
       /\ resp.body.data = <<>>
       /\ resp.body.pagination.totalPages = 0
       /\ resp.body.pagination.totalCount = 0
  /\ Probed({"relationship", "other"}) =>
       /\ ShortCircuited
       /\ resp.status = 500

C15_Witness ==
  /\ Probed({"table"})
  /\ resp.status = 200
  /\ resp.body.strategy = "empty"
  /\ parseInt(list.page) = 2


\* The joined query has failed with the relationship signature.
Degraded == list.pc # "idle" /\ list.outcome["joined"] = "relationship"

\* C16: when the joined query fails with the relationship signature the
\* handler issues the flat query; when that returns, the answer is 200 with
\* every note of the caller, newest first, each with labels = [] and
\* category = null, and totalCount and totalPages computed from the number of
\* records returned; the relationship failure itself never yields a 500.
C16_RelationshipFallback ==
  Degraded =>
    /\ list.pc \in {"flat", "done"}
    /\ list.pc = "done" => list.outcome["flat"] # "none"
    /\ resp.status = 500 => list.outcome["flat"] = "other"
    /\ list.outcome["flat"] = "ok" =>
         /\ resp.status = 200
         /\ Len(resp.body.data) = Cardinality(RowsOfOwner(list.user))
         /\ \A i \in 1..Len(resp.body.data) :
              /\ resp.body.data[i].id \in RowsOfOwner(list.user)
              /\ resp.body.data[i].labels = {}
              /\ resp.body.data[i].category = Null
              /\ \A j \in 1..Len(resp.body.data) :
                   i < j => resp.body.data[i].id > resp.body.data[j].id
         /\ resp.body.pagination.totalCount = Len(resp.body.data)
         /\ resp.body.pagination.totalPages
              = Ceil(Len(resp.body.data), parseInt(list.limit))

C16_Witness ==
  /\ Degraded
  /\ list.outcome["flat"] = "ok"
  /\ list.outcome["count"] = "ok"
  /\ list.drafts = "true"
  /\ Len(resp.body.data) = 2
  /\ \E i \in 1..2 : postLabels[resp.body.data[i].id] # {} /\ ~posts[resp.body.data[i].id].is_draft


\* The listing is answered and one of these queries failed with neither of
\* the two recognised signatures.
FailedUnrecognised(queries) ==
  list.pc = "done" /\ \E q \in queries : list.outcome[q] = "other"

\* C17: a listing in which the probe, the count query, the joined query or
\* the flat query failed with neither the table-absent nor the relationship
\* signature is answered 500.
C17_StoreFailureIs500 == FailedUnrecognised(Queries) => resp.status = 500

\* C17, the part the handler does meet: the probe, the joined query and the
\* flat query.
C17_ThrownFailureIs500 ==
  FailedUnrecognised(Queries \ {"count"}) => resp.status = 500


\* What a view must show for row n, and what an answered note shows.
ExpectedDate(n) ==
  IF posts[n].is_updated THEN <<posts[n].updated_at, "updated">>
  ELSE <<posts[n].created_at, "created">>
ShownDate(note) == <<note.display_date, note.date_type>>

\* A single-note view or a public view was answered with a note.
Viewed(ops) == resp.op \in ops /\ resp.status = 200

ListShowsDates ==
  Listed =>
    \A i \in 1..Len(resp.body.data) :
      ShownDate(resp.body.data[i]) = ExpectedDate(resp.body.data[i].id)

\* C18: the list view, the single-note view and the public view each show
\* updated_at / 'updated' for a note whose is_updated is true and
\* created_at / 'created' otherwise, hence the same for the same note.
C18_SameDisplayDate ==
  /\ Viewed({"get", "public"}) => ShownDate(resp.body) = ExpectedDate(resp.id)
  /\ ListShowsDates

\* C18, the part the handlers do meet: the list view and the single-note view.
C18_OwnerViewsDisplayDate ==
  /\ Viewed({"get"}) => ShownDate(resp.body) = ExpectedDate(resp.id)
  /\ ListShowsDates


\* Exactly one of content and encrypted_content is populated, the one the
\* is_encrypted flag names.
OneContent(row) ==
  IF row.is_encrypted
  THEN row.encrypted_content # Null /\ row.content = Null
  ELSE row.content # Null /\ row.encrypted_content = Null

\* C19: every note has exactly one of content and encrypted_content
\* populated: encrypted_content when is_encrypted is true, content otherwise.
C19_ContentXorCipher ==
  \A n \in DOMAIN posts : Live(n) => OneContent(posts[n])

\* C19, the part the handlers do meet: a note as POST /api/notes wrote it.
C19_CreatedContentXorCipher ==
  \A n \in DOMAIN posts : (Live(n) /\ ~posts[n].is_updated) => OneContent(posts[n])


\* ------------------------------------------- claims: provisioning, liveness

\* Request r resolved an identity, by the fast path or by the authority.
Authenticated(r) == req[r].ident \in Users

AuthorityEnded(r, results) ==
  Mandatory(r) /\ req[r].local = "failed" /\ req[r].authResult \in results

\* The request was refused: one response, no retry, the handler not invoked.
Refused(r, code) ==
  /\ req[r].pc = "responded"
  /\ req[r].status = code
  /\ req[r].authCalls = 1
  /\ req[r].nextCalls = 0
  /\ req[r].user = "undefined"

\* C21: in authenticateUser, when local verification fails and the authority
\* call returns an error, returns no user, or raises, the request is answered
\* 401, the call is not retried and the handler is not invoked.
C21_AuthorityFailureIs401 ==
  \A r \in Reqs : AuthorityEnded(r, {"error", "nouser", "throw"}) => Refused(r, 401)

\* C21, the part the middleware does meet: a returned failure is answered 401
\* and a raised one 500, in both cases without a retry or a call of next().
C21_AuthorityFailureRefused ==
  \A r \in Reqs :
    /\ AuthorityEnded(r, {"error", "nouser"}) => Refused(r, 401)
    /\ AuthorityEnded(r, {"throw"}) => Refused(r, 500)


\* ------------------------------------ claims: label filter of the listing

\* The listing was answered by the joined strategy with a labels parameter.
ListedByLabels ==
  Listed /\ resp.body.strategy = "joined" /\ list.labels # {}

\* The notes matching the request's owner, drafts and visibility predicates.
Matching == Filtered(list.user, list.drafts, list.visibility)

\* The place of note n among the matching notes, newest first.
Rank(n) ==
  Cardinality({m \in Matching : posts[m].created_at[1] >= posts[n].created_at[1]})

\* Note n is on the fetched page: offset (page - 1) * limit, size limit.
OnFetchedPage(n) ==
  LET offset == (parseInt(list.page) - 1) * parseInt(list.limit) IN
    n \in Matching /\ offset < Rank(n) /\ Rank(n) <= offset + parseInt(list.limit)

\* Note n carries one of the requested labels.
HasRequestedLabel(n) == postLabels[n] \cap list.labels # {}

\* C22: a listing with a labels parameter returns exactly the notes of the
\* fetched page (cut before any label predicate) that carry a requested label,
\* each once and newest first; matching notes of other pages are not pulled in.
C22_LabelsFilterFetchedPage ==
  ListedByLabels =>
    LET data == resp.body.data
        expected == {n \in DOMAIN posts : OnFetchedPage(n) /\ HasRequestedLabel(n)}
    IN /\ {data[i].id : i \in DOMAIN data} = expected
       /\ Len(data) = Cardinality(expected)
       /\ \A i, j \in DOMAIN data : i < j => Rank(data[i].id) < Rank(data[j].id)

\* The undercount: the fetched page holds a note without the label, the answer
\* is empty, and a matching note with the label lies on another page.
C22_Witness ==
  /\ ListedByLabels
  /\ resp.body.data = <<>>
  /\ \E n \in DOMAIN posts : OnFetchedPage(n) /\ ~HasRequestedLabel(n)
  /\ \E n \in Matching : ~OnFetchedPage(n) /\ HasRequestedLabel(n)


\* ------------------------------------ claims: ciphertext in the views

\* The answered note has a stored ciphertext.
AnsweredCipherNote(ops) ==
  Viewed(ops) /\ posts[resp.id].encrypted_content # Null

\* The answer carries the stored ciphertext unchanged.
CiphertextReturned ==
  /\ "encrypted_content" \in DOMAIN resp.body
  /\ resp.body.encrypted_content = posts[resp.id].encrypted_content

\* No item of an answered listing carries a ciphertext.
ListHidesCiphertext ==
  Listed => \A i \in 1..Len(resp.body.data) : "encrypted_content" \notin DOMAIN resp.body.data[i]

\* C23: the single-note view and the public view both return the stored
\* encrypted_content unchanged whenever the note has one; the list view never
\* returns it.
C23_CiphertextInSingleViews ==
  /\ AnsweredCipherNote({"get", "public"}) => CiphertextReturned
  /\ ListHidesCiphertext

\* C23, the part the handlers do meet: the single-note view returns the
\* ciphertext, the list view never does, and the public view never does either.
C23_OwnerViewCiphertext ==
  /\ AnsweredCipherNote({"get"}) => CiphertextReturned
  /\ ListHidesCiphertext
  /\ Viewed({"public"}) => "encrypted_content" \notin DOMAIN resp.body


\* ------------------------------------ claims: labels of an updated note

\* The step completes the label writes of the PUT request of flight f: the
\* delete when label_ids is empty, the insert otherwise. The request goes on to
\* fetch the note and is answered 200.
PutWroteLabels(f) ==
  /\ flight[f].pc \in {"labelsDelete", "labelsInsert"}
  /\ flight'[f].pc = "fetch"

\* The step belongs to a PUT request whose body has no label_ids.
UnlabelledPutStep(f) ==
  /\ flight'[f] # flight[f]
  /\ ~flight[f].labelled
  /\ ~flight'[f].labelled

\* C24: when the label writes of an owner's PUT that supplies label_ids are
\* complete (the request is answered 200 next), the note's label associations
\* are exactly the supplied set, every other association removed; no step of a
\* PUT that omits label_ids changes the note's associations.
C24_LabelsReplaced ==
  [][\A f \in DOMAIN flight :
       /\ PutWroteLabels(f) => postLabels'[parseInt(flight[f].id)] = flight[f].label_ids
       /\ UnlabelledPutStep(f) => postLabels' = postLabels]_vars

\* C24, the part the handler does meet: a PUT that omits label_ids writes no
\* association.
C24_UnlabelledPutKeepsLabels ==
  [][\A f \in DOMAIN flight : UnlabelledPutStep(f) => postLabels' = postLabels]_vars


\* ------------------------------------ claims: the users row is written once

\* The step is the insert of ensureUserExists made for request r, which the
\* request reaches only after its lookup reported the row absent.
InsertReturns(r) == req[r].pc = "insert" /\ req'[r].pc = "ensured"

\* C25: once a users row with a given id exists, no authentication with that
\* identity, whatever its email now is, adds a second row for the id or changes
\* the row; the table changes only by the insert of a request whose lookup
\* reported the row absent, and then by one row of that identity.
C25_RowWrittenOnce ==
  [][/\ users \subseteq users'
     /\ \A row \in users' \ users :
          /\ ~\E old \in users : old.id = row.id
          /\ \E r \in Reqs : InsertReturns(r) /\ row.id = req[r].ident
     /\ Cardinality(users' \ users) <= 1]_vars

\* A request authenticated with an identity whose email differs from the one
\* in the existing row, went through ensureUserExists without an error, and
\* reached the handler; the row still has the email it was created with.
C25_Witness ==
  \E r \in Reqs, row \in users :
    /\ req[r].pc = "handler"
    /\ req[r].provErr = "ok"
    /\ row.id = req[r].ident
    /\ row.email # Email(r)


\* ------------------------------------ claims: one outcome per request

\* The middleware has finished with request r.
Finished(r) == req[r].pc \in {"responded", "handler"}

\* The middleware answered with an error and did not call next().
ErrorResponse(r) ==
  /\ req[r].pc = "responded"
  /\ req[r].status \in {401, 500}
  /\ req[r].nextCalls = 0

\* The middleware called next() once, with req.user set, and sent nothing.
HandlerEntered(r) ==
  /\ req[r].pc = "handler"
  /\ req[r].status = 0
  /\ req[r].nextCalls = 1
  /\ req[r].user \in Users

\* C26: for every request through authenticateUser exactly one of two things
\* happens: one error response (401 or 500) without a call of next(), or one
\* call of next() with req.user set. Until then nothing was sent and next()
\* was not called; afterwards the middleware does nothing more.
C26_OneOutcome ==
  /\ [](\A r \in Reqs :
          Mandatory(r) =>
            IF Finished(r)
            THEN ErrorResponse(r) # HandlerEntered(r)
            ELSE req[r].status = 0 /\ req[r].nextCalls = 0 /\ req[r].user = "undefined")
  /\ [][\A r \in Reqs : (Mandatory(r) /\ Finished(r)) => req'[r] = req[r]]_vars

\* One request was answered 500 and another entered its handler.
C26_Witness ==
  \E r1, r2 \in Reqs :
    /\ Mandatory(r1) /\ ErrorResponse(r1) /\ req[r1].status = 500
    /\ Mandatory(r2) /\ HandlerEntered(r2)


\* ------------------------------------ claims: two publish requests

\* The last two requests answered were publish requests of the same note, the
\* second by its owner, and the first was answered 200: the store processed
\* the conditional updates of two such requests one after the other.
SecondOfTwoPublishes ==
  resp.op = "publish" /\ resp.again /\ ~resp.foreign

\* C27: of two publish requests by the owner on the same draft note, the one
\* whose update the store processes second is answered 404 after the first
\* was answered 200, and the note is then not a draft: both cannot succeed.
C27_OneOfTwoPublishes ==
  SecondOfTwoPublishes =>
    /\ resp.status = 404
    /\ Live(resp.id)
    /\ ~posts[resp.id].is_draft

\* The second of the two requests was answered.
C27_Witness ==
  /\ SecondOfTwoPublishes
  /\ resp.status = 404
  /\ posts[resp.id].is_updated


\* ------------------------------------ claims: optionalAuth always passes

\* C28: optionalAuth never sends a response; next() has been called once when
\* the request is with its handler and not before; a request whose authority
\* call raised is with its handler without an identity; and every request
\* through optionalAuth reaches its handler.
C28_OptionalAlwaysPasses ==
  /\ [](\A r \in Reqs :
          Optional(r) =>
            /\ req[r].status = 0
            /\ req[r].pc # "responded"
            /\ req[r].nextCalls = IF req[r].pc = "handler" THEN 1 ELSE 0
            /\ req[r].authResult = "throw" =>
                 req[r].pc = "handler" /\ req[r].user = "undefined")
  /\ \A r \in Reqs : Optional(r) ~> (req[r].pc = "handler" /\ req[r].nextCalls = 1)

\* Two requests through optionalAuth are with their handlers: the authority
\* call of one raised, the other carries an identity.
C28_Witness ==
  \E r1, r2 \in Reqs :
    /\ Optional(r1) /\ req[r1].authResult = "throw"
    /\ req[r1].pc = "handler" /\ req[r1].nextCalls = 1
    /\ Optional(r2) /\ req[r2].pc = "handler" /\ req[r2].user \in Users

=============================================================================
